---- MODULE Spec2Model ----
(***************************************************************************)
(* A model of encodium (src/encodium/__init__.py): Definitions, the record *)
(* engine (Encodium.__init__, change, check, __eq__), the JSON bridge      *)
(* (to_json, from_obj, from_json) and the newline framing (recv_from,      *)
(* send_to), together with the record types declared in src/tests/tests.py.*)
(*                                                                         *)
(* Python values are records [t |-> <class name>, v |-> <payload>].  A str *)
(* is a sequence of one-character strings, so that len(), iteration and    *)
(* concatenation are those of Python.                                      *)
(***************************************************************************)
EXTENDS Integers, Sequences, FiniteSets, TLC

VARIABLES
    declared,                  \* the record types declared so far
    Definition_encodium_type,  \* Encodium.Definition._encodium_type (class attribute)
    obj,                       \* the instance under test, or NoObj
    last,                      \* what the last call did
    counter,                   \* the closure variable of next_counter
    returned,                  \* the values next_counter has returned, in order
    omits,                     \* constructions of Nonce that omitted `integer`
    sock_data,                 \* Mocket.data: the text written to the stream
    sock_counter,              \* Mocket.counter: how much of it has been read
    data,                      \* recv_from's list of the units read so far
    pc,                        \* "idle", or "recv" inside recv_from's loop
    sent,                      \* the instances send_to has written, in order
    received                   \* what each finished recv_from handed on and got

metaVars == <<declared, Definition_encodium_type>>
engineVars == <<obj, last, counter, returned, omits>>
streamVars == <<sock_data, sock_counter, data, pc, sent, received>>
vars == <<metaVars, engineVars, streamVars>>

(***************************************************************************)
(* Python values.  Two values of different classes differ in t; the field  *)
(* t is named before v here so that an equality is decided on t first.     *)
(***************************************************************************)
None == [t |-> "NoneType", v |-> <<>>]
PyInt(n) == [t |-> "int", v |-> n]
PyBool(b) == [t |-> "bool", v |-> b]
PyStr(s) == [t |-> "str", v |-> s]
PyBytes(b) == [t |-> "bytes", v |-> b]
PyList(xs) == [t |-> "list", v |-> xs]
PyDict(pairs) == [t |-> "dict", v |-> pairs]
Function(f) == [t |-> "function", v |-> f]
Type(cls) == [t |-> "type", v |-> cls]
Instance(cls, d) == [t |-> cls, v |-> d]

NoObj == [t |-> "<no instance>", v |-> <<>>]

\* Field and attribute names, as Python strs.
k_age == <<"a", "g", "e">>
k_name == <<"n", "a", "m", "e">>
k_diabetic == <<"d", "i", "a", "b", "e", "t", "i", "c">>
k_optional == <<"o", "p", "t", "i", "o", "n", "a", "l">>
k_people == <<"p", "e", "o", "p", "l", "e">>
k_parties == <<"p", "a", "r", "t", "i", "e", "s">>
k_data == <<"d", "a", "t", "a">>
k_byteslist == <<"b", "y", "t", "e", "s", "l", "i", "s", "t">>
k_integer == <<"i", "n", "t", "e", "g", "e", "r">>
k_lo == <<"l", "o">>
k_hi == <<"h", "i">>
k_note == <<"n", "o", "t", "e">>
k_names == <<"n", "a", "m", "e", "s">>
k_scores == <<"s", "c", "o", "r", "e", "s">>
k_holder == <<"h", "o", "l", "d", "e", "r">>
k_hat == <<"h", "a", "t">>
k_puns == <<"p", "u", "n", "s">>

(***************************************************************************)
(* Outcomes of a call: a normal return or a raised exception.  A message   *)
(* is a sequence of pieces whose concatenation is the Python message.      *)
(***************************************************************************)
Ok == [exc |-> "none", msg |-> <<>>]
Raise(e, m) == [exc |-> e, msg |-> m]
ValidationError(m) == Raise("ValidationError", m)

(***************************************************************************)
(* Definitions (Encodium.Definition and its subclasses)                    *)
(***************************************************************************)
\* class Encodium.Definition: optional = False, default = None; __init__
\* copies the keyword arguments.  _encodium_type is looked up on the class.
EncodiumDefinition(optional, default) ==
    [kind |-> "Encodium", optional |-> optional, default |-> default]

IntegerDefinition(optional, default, non_negative) ==
    [kind |-> "Integer", optional |-> optional, default |-> default,
     non_negative |-> non_negative]

\* max_length is None or an int
StringDefinition(optional, default, max_length) ==
    [kind |-> "String", optional |-> optional, default |-> default,
     max_length |-> max_length]

BooleanDefinition(optional, default) ==
    [kind |-> "Boolean", optional |-> optional, default |-> default]

ListDefinition(inner_definition, optional, default) ==
    [kind |-> "List", optional |-> optional, default |-> default,
     inner_definition |-> inner_definition]

BytesDefinition(optional, default) ==
    [kind |-> "Bytes", optional |-> optional, default |-> default]

(***************************************************************************)
(* The declared record types: the class bodies, as the ordered items of    *)
(* the class dict that are Definitions.  Person, Party, City, Dad, the two *)
(* Nonce types and NonStandardJsonEncoder are those of src/tests/tests.py. *)
(* Span, Roster and Passport are further declarations a user of the        *)
(* library writes with the same Definitions: Span overrides check() as the *)
(* docstring's example does, Roster holds Lists whose inner Definitions    *)
(* carry constraints, Passport holds a record in a field.                  *)
(***************************************************************************)
NameMaxLength == 50

ClassDict(cls) ==
    CASE cls = "Person" ->
           << <<k_age, IntegerDefinition(FALSE, None, TRUE)>>,
              <<k_name, StringDefinition(FALSE, None, PyInt(NameMaxLength))>>,
              <<k_diabetic, BooleanDefinition(FALSE, PyBool(TRUE))>>,
              <<k_optional, IntegerDefinition(TRUE, None, FALSE)>> >>
      [] cls = "Party" ->
           << <<k_people, ListDefinition(EncodiumDefinition(FALSE, None), FALSE, None)>> >>
      [] cls = "City" ->
           << <<k_parties, ListDefinition(EncodiumDefinition(FALSE, None), FALSE, None)>> >>
      [] cls = "Dad" ->
           << <<k_puns, ListDefinition(StringDefinition(FALSE, None, None), FALSE, None)>> >>
      [] cls = "TestBytes.Nonce" ->
           << <<k_data, BytesDefinition(FALSE, None)>> >>
      [] cls = "Nonce" ->
           << <<k_integer, IntegerDefinition(FALSE, Function("next_counter"), FALSE)>> >>
      [] cls = "NonStandardJsonEncoder" ->
           << <<k_byteslist, ListDefinition(BytesDefinition(FALSE, None), FALSE, None)>> >>
      [] cls = "Span" ->
           << <<k_lo, IntegerDefinition(FALSE, None, FALSE)>>,
              <<k_hi, IntegerDefinition(FALSE, None, FALSE)>>,
              <<k_note, StringDefinition(TRUE, None, None)>> >>
      [] cls = "Roster" ->
           << <<k_names, ListDefinition(StringDefinition(FALSE, None, PyInt(3)), FALSE, None)>>,
              <<k_scores, ListDefinition(IntegerDefinition(FALSE, None, TRUE), FALSE, None)>> >>
      [] cls = "Passport" ->
           << <<k_holder, EncodiumDefinition(FALSE, None)>> >>

RecordTypes ==
    {"Person", "Party", "City", "Dad", "TestBytes.Nonce", "Nonce",
     "NonStandardJsonEncoder", "Span", "Roster", "Passport"}

\* The record types a class body refers to (X.Definition() needs X to exist).
Needs(cls) ==
    CASE cls = "Party" -> {"Person"}
      [] cls = "City" -> {"Party"}
      [] cls = "Passport" -> {"Person"}
      [] cls = "Dad" -> {"Person"}
      [] OTHER -> {}

\* The order of the declarations in src/tests/tests.py, then the others.
TestsOrder ==
    <<"Person", "Party", "City", "Dad", "TestBytes.Nonce", "Nonce",
      "NonStandardJsonEncoder", "Span", "Roster", "Passport">>

\* The base class of a class (single inheritance): class Dad(Person).
Base(cls) ==
    CASE cls = "bool" -> "int"
      [] cls = "Dad" -> "Person"
      [] cls \in RecordTypes \ {"Dad"} -> "Encodium"
      [] OTHER -> "object"

RECURSIVE issubclass(_, _)
issubclass(actual, expected) ==
    \/ actual = expected
    \/ actual # "object" /\ issubclass(Base(actual), expected)

(***************************************************************************)
(* EncodiumMeta.__init__                                                   *)
(***************************************************************************)
\* No record type of the model nests a Definition class of its own, so
\* cls.Definition is Encodium.Definition, and `hasattr(cls.Definition,
\* '_encodium_type')` asks whether an earlier declaration has set it.
MetaInit_encodium_type(current, cls) ==
    IF current = None THEN Type(cls) ELSE current

\* cls._encodium_fields: the Definitions of the class's own dict
\* (`hasattr(cls.Definition, '_encodium_fields')` is never true).
_encodium_fields(cls) == ClassDict(cls)

\* The names and the values of a sequence of <<name, value>> pairs.
Keys(pairs) == {pairs[i][1] : i \in 1..Len(pairs)}
Lookup(pairs, key) == pairs[CHOOSE i \in 1..Len(pairs) : pairs[i][1] = key][2]

FieldNames(cls) == Keys(_encodium_fields(cls))

\* self.__class__.__dict__[name]
ClassAttr(cls, name) == Lookup(ClassDict(cls), name)

\* What reading an attribute that is not in the instance's __dict__ finds:
\* the class attribute of the first class on the way up that has one (a
\* Definition object), or nothing.
NoAttr == [t |-> "<no attribute>", v |-> <<>>]

RECURSIVE type_getattr(_, _)
type_getattr(cls, name) ==
    IF cls \notin RecordTypes THEN NoAttr
    ELSE IF name \in Keys(ClassDict(cls))
    THEN [t |-> "Definition", v |-> ClassAttr(cls, name)]
    ELSE type_getattr(Base(cls), name)

\* instance.name, as dad.age of test_inheritance reads it
getattr(instance, name) ==
    IF name \in DOMAIN instance.v THEN instance.v[name]
    ELSE type_getattr(instance.t, name)

hasattr(instance, name) == getattr(instance, name) # NoAttr

\* definition._encodium_type, read through the class
_encodium_type(definition, base_type) ==
    CASE definition.kind = "Integer" -> "int"
      [] definition.kind = "String" -> "str"
      [] definition.kind = "Boolean" -> "bool"
      [] definition.kind = "List" -> "list"
      [] definition.kind = "Bytes" -> "bytes"
      [] definition.kind = "Encodium" -> base_type.v

(***************************************************************************)
(* Text of numbers: str(n) and json.dumps(n) for an int                    *)
(***************************************************************************)
Digits == <<"0", "1", "2", "3", "4", "5", "6", "7", "8", "9">>

RECURSIVE NatToStr(_)
NatToStr(n) ==
    IF n < 10 THEN <<Digits[n + 1]>>
    ELSE NatToStr(n \div 10) \o <<Digits[(n % 10) + 1]>>

IntToStr(n) == IF n < 0 THEN <<"-">> \o NatToStr(-n) ELSE NatToStr(n)

\* The number an int or a bool stands for in a comparison (True is 1).
Num(value) == IF value.t = "bool" THEN (IF value.v THEN 1 ELSE 0) ELSE value.v

ClassRepr(cls) == <<"<class '", cls, "'>">>

(***************************************************************************)
(* check_type and check_value                                              *)
(***************************************************************************)
\* Encodium.Definition.check_type
Definition_check_type(definition, value, base_type) ==
    IF value = None
    THEN IF ~definition.optional
         THEN ValidationError(<<"cannot be None">>)
         ELSE Ok
    ELSE IF definition.kind = "Encodium" /\ base_type = None
    THEN Raise("AttributeError", <<"_encodium_type">>)
    ELSE LET expected == _encodium_type(definition, base_type)
             actual == value.t
         IN IF ~issubclass(actual, expected)
            THEN ValidationError(<<"is supposed to be type ">> \o ClassRepr(expected)
                                 \o <<", but was set to something of type ">>
                                 \o ClassRepr(actual) \o <<".">>)
            ELSE Ok

RECURSIVE check_type(_, _, _)
RECURSIVE ListCheckInner(_, _, _, _)
\* List.Definition.check_type's loop, from element i on
ListCheckInner(inner_definition, value, i, base_type) ==
    IF i > Len(value.v) THEN Ok
    ELSE LET then(r) ==
                 IF r.exc # "none" THEN r
                 ELSE ListCheckInner(inner_definition, value, i + 1, base_type)
         IN then(check_type(inner_definition, value.v[i], base_type))

\* List.Definition.check_type calls the inherited check_type, then the loop;
\* every other Definition has the inherited check_type alone.
check_type(definition, value, base_type) ==
    LET then(r) ==
            IF definition.kind # "List" \/ r.exc # "none" \/ value = None THEN r
            ELSE ListCheckInner(definition.inner_definition, value, 1, base_type)
    IN then(Definition_check_type(definition, value, base_type))

\* Integer.Definition.check_value
Integer_check_value(definition, value) ==
    IF definition.non_negative
    THEN IF value.t \in {"int", "bool"}
         THEN IF Num(value) < 0
              THEN ValidationError(<<"must not be negative">>)
              ELSE Ok
         ELSE Raise("TypeError", <<"'<' not supported between instances of '",
                                   value.t, "' and 'int'">>)
    ELSE Ok

\* String.Definition.check_value
String_check_value(definition, value) ==
    IF definition.max_length # None
    THEN IF value.t \in {"str", "list", "bytes"}
         THEN IF Len(value.v) >= definition.max_length.v
              THEN ValidationError(<<"was set to a string of length ">>
                                   \o IntToStr(Len(value.v))
                                   \o <<" but cannot be longer than ">>
                                   \o IntToStr(definition.max_length.v))
              ELSE Ok
         ELSE Raise("TypeError", <<"object of type '", value.t, "' has no len()">>)
    ELSE Ok

RECURSIVE check_value(_, _)
\* List.Definition.check_value: each turn of the loop hands the inner
\* Definition the list itself.
List_check_value(definition, value) ==
    IF Len(value.v) = 0 THEN Ok
    ELSE check_value(definition.inner_definition, value)

check_value(definition, value) ==
    CASE definition.kind = "Integer" -> Integer_check_value(definition, value)
      [] definition.kind = "String" -> String_check_value(definition, value)
      [] definition.kind = "List" -> List_check_value(definition, value)
      [] OTHER -> Ok

(***************************************************************************)
(* Encodium.check: the whole-record hook.  Span overrides it (lo must not  *)
(* exceed hi); every other record type keeps the default, which passes.    *)
(***************************************************************************)
check(cls, d, changed_attributes) ==
    IF cls = "Span"
    THEN IF Num(d[k_lo]) > Num(d[k_hi])
         THEN ValidationError(<<"lo must not exceed hi">>)
         ELSE Ok
    ELSE Ok

(***************************************************************************)
(* Encodium.change                                                         *)
(***************************************************************************)
\* The per-field loop, from entry i of kwargs on: an exception, or the
\* changed_attributes (in the order of kwargs).
RECURSIVE CheckFields(_, _, _, _, _)
CheckFields(cls, kwargs, i, changed_attributes, base_type) ==
    LET \* definition.check_type(value), then check_value when value is not None
        checks(definition, value) ==
            LET then(t) ==
                    IF t.exc # "none" \/ value = None THEN t
                    ELSE check_value(definition, value)
            IN then(check_type(definition, value, base_type))
        \* except ValidationError as e: raise ValidationError(name + " " + str(e))
        field(name, value, e) ==
            IF e.exc = "none"
            THEN CheckFields(cls, kwargs, i + 1,
                             Append(changed_attributes, <<name, value>>), base_type)
            ELSE [exc |-> e.exc,
                  msg |-> IF e.exc = "ValidationError"
                          THEN name \o <<" ">> \o e.msg ELSE e.msg,
                  changed |-> <<>>]
        entry(name, value) ==
            IF name \notin FieldNames(cls)
            THEN CheckFields(cls, kwargs, i + 1, changed_attributes, base_type)
            ELSE field(name, value, checks(ClassAttr(cls, name), value))
    IN IF i > Len(kwargs)
       THEN [exc |-> "none", msg |-> <<>>, changed |-> changed_attributes]
       ELSE entry(kwargs[i][1], kwargs[i][2])

\* backup[name] = self.__dict__[name], or None when there is none
Backup(d, changed_attributes) ==
    [i \in 1..Len(changed_attributes) |->
        LET name == changed_attributes[i][1]
        IN <<name, IF name \in DOMAIN d THEN d[name] ELSE None>>]

\* self.__dict__[name] = value for every changed attribute
Commit(d, changed_attributes) ==
    [name \in DOMAIN d \cup Keys(changed_attributes) |->
        IF name \in Keys(changed_attributes)
        THEN Lookup(changed_attributes, name) ELSE d[name]]

SetAttr(d, name, value) ==
    [n \in DOMAIN d \cup {name} |-> IF n = name THEN value ELSE d[n]]

\* `for name, value in backup: self.__dict__[name] = value`, from entry i
\* on.  Iterating a dict yields its keys, and a key is a str: unpacking it
\* into two names takes a key of two characters.
RECURSIVE Restore(_, _, _)
Restore(d, backup, i) ==
    IF i > Len(backup) THEN [exc |-> "none", msg |-> <<>>, d |-> d]
    ELSE LET key == backup[i][1]
         IN IF Len(key) = 2
            THEN Restore(SetAttr(d, <<key[1]>>, PyStr(<<key[2]>>)), backup, i + 1)
            ELSE [exc |-> "ValueError",
                  msg |-> IF Len(key) > 2
                          THEN <<"too many values to unpack (expected 2)">>
                          ELSE <<"not enough values to unpack (expected 2, got ">>
                               \o IntToStr(Len(key)) \o <<")">>,
                  d |-> d]

\* The whole of change on an instance of cls whose __dict__ is d:
\* the exception raised (or none), the __dict__ afterwards, and whether the
\* hook ran and raised.
change(cls, d, kwargs, base_type) ==
    LET \* the except branch: the restore loop, then `raise e`
        restored(h, r) ==
            IF r.exc = "none"
            THEN [exc |-> h.exc, msg |-> h.msg, d |-> r.d, hook |-> "raised"]
            ELSE [exc |-> r.exc, msg |-> r.msg, d |-> r.d, hook |-> "raised"]
        hooked(backup, committed, h) ==
            IF h.exc = "none"
            THEN [exc |-> "none", msg |-> <<>>, d |-> committed, hook |-> "passed"]
            ELSE restored(h, Restore(committed, backup, 1))
        commit(changed_attributes, backup, committed) ==
            hooked(backup, committed, check(cls, committed, Keys(changed_attributes)))
        fields(f) ==
            IF f.exc # "none"
            THEN [exc |-> f.exc, msg |-> f.msg, d |-> d, hook |-> "not called"]
            ELSE commit(f.changed, Backup(d, f.changed), Commit(d, f.changed))
    IN fields(CheckFields(cls, kwargs, 1, <<>>, base_type))

(***************************************************************************)
(* Encodium.__init__                                                       *)
(***************************************************************************)
\* next_counter of TestCallableDefault: returns counter, then adds one.
\* The defaults are resolved field by field; calls collects what the
\* callable defaults returned.
\* A variant that calls a callable default before looking at kwargs, and
\* so calls it for a construction that supplies the field as well.
RECURSIVE ResolveDefaultsEagerly(_, _, _, _, _)
ResolveDefaultsEagerly(fields, i, kwargs, ctr, calls) ==
    IF i > Len(fields) THEN [kwargs |-> kwargs, counter |-> ctr, calls |-> calls]
    ELSE IF fields[i][2].default.t = "function"
    THEN ResolveDefaultsEagerly(fields, i + 1,
                                IF fields[i][1] \notin Keys(kwargs)
                                THEN Append(kwargs, <<fields[i][1], PyInt(ctr)>>)
                                ELSE kwargs,
                                ctr + 1, Append(calls, PyInt(ctr)))
    ELSE ResolveDefaultsEagerly(fields, i + 1,
                                IF fields[i][1] \notin Keys(kwargs)
                                THEN Append(kwargs, <<fields[i][1], fields[i][2].default>>)
                                ELSE kwargs,
                                ctr, calls)

RECURSIVE ResolveDefaults(_, _, _, _, _)
ResolveDefaults(fields, i, kwargs, ctr, calls) ==
    IF i > Len(fields) THEN [kwargs |-> kwargs, counter |-> ctr, calls |-> calls]
    ELSE LET name == fields[i][1]
             definition == fields[i][2]
         IN IF name \notin Keys(kwargs)
            THEN IF definition.default.t = "function"
                 THEN ResolveDefaults(fields, i + 1,
                                      Append(kwargs, <<name, PyInt(ctr)>>),
                                      ctr + 1, Append(calls, PyInt(ctr)))
                 ELSE ResolveDefaults(fields, i + 1,
                                      Append(kwargs, <<name, definition.default>>),
                                      ctr, calls)
            ELSE ResolveDefaults(fields, i + 1, kwargs, ctr, calls)

EmptyDict == [n \in {} |-> None]

\* cls with keyword arguments: the outcome of change on the new object, with the counter
\* afterwards and the values the callable defaults returned.
Encodium__init__(cls, kwargs, ctr, base_type) ==
    LET changed(r, c) ==
            [exc |-> c.exc, msg |-> c.msg, d |-> c.d, hook |-> c.hook,
             entered |-> TRUE, given |-> kwargs,
             kwargs |-> r.kwargs, counter |-> r.counter, calls |-> r.calls]
        resolved(r) == changed(r, change(cls, EmptyDict, r.kwargs, base_type))
    IN resolved(ResolveDefaults(_encodium_fields(cls), 1, kwargs, ctr, <<>>))

(***************************************************************************)
(* Encodium.__eq__ and __ne__                                              *)
(***************************************************************************)
RECURSIVE PyEq(_, _)
RECURSIVE Encodium__eq__(_, _)

\* Python's a == b on the values of the model.  A record instance on
\* either side decides with its __eq__ (the other operand's __eq__
\* returns NotImplemented); lists compare item by item; True equals 1.
PyEq(a, b) ==
    CASE a.t \in RecordTypes -> Encodium__eq__(a, b)
      [] b.t \in RecordTypes -> Encodium__eq__(b, a)
      [] a.t = "list" /\ b.t = "list" ->
           /\ Len(a.v) = Len(b.v)
           /\ \A k \in 1..Len(a.v) : PyEq(a.v[k], b.v[k])
      [] a.t \in {"int", "bool"} /\ b.t \in {"int", "bool"} -> Num(a) = Num(b)
      [] OTHER -> a = b

Encodium__eq__(self, other) ==
    IF self.t = other.t
    THEN \A k \in 1..Len(_encodium_fields(self.t)) :
            LET name == _encodium_fields(self.t)[k][1]
            IN PyEq(self.v[name], other.v[name])
    ELSE TRUE

Encodium__ne__(self, other) == ~Encodium__eq__(self, other)

(***************************************************************************)
(* base64.b64encode and base64.b64decode                                   *)
(***************************************************************************)
B64Alphabet ==
    <<"A", "B", "C", "D", "E", "F", "G", "H", "I", "J", "K", "L", "M",
      "N", "O", "P", "Q", "R", "S", "T", "U", "V", "W", "X", "Y", "Z",
      "a", "b", "c", "d", "e", "f", "g", "h", "i", "j", "k", "l", "m",
      "n", "o", "p", "q", "r", "s", "t", "u", "v", "w", "x", "y", "z",
      "0", "1", "2", "3", "4", "5", "6", "7", "8", "9", "+", "/">>

B64Chars == {B64Alphabet[k] : k \in 1..64}
B64Index(c) == (CHOOSE k \in 1..64 : B64Alphabet[k] = c) - 1
B64(n) == B64Alphabet[n + 1]

\* binascii.b2a_base64 without the newline: three bytes make four characters
RECURSIVE b64encode(_, _)
b64encode(b, i) ==
    LET left == Len(b) - i + 1
    IN IF left <= 0 THEN <<>>
       ELSE IF left >= 3
       THEN LET x == b[i] * 65536 + b[i + 1] * 256 + b[i + 2]
            IN <<B64(x \div 262144), B64((x \div 4096) % 64),
                 B64((x \div 64) % 64), B64(x % 64)>> \o b64encode(b, i + 3)
       ELSE IF left = 2
       THEN LET x == b[i] * 65536 + b[i + 1] * 256
            IN <<B64(x \div 262144), B64((x \div 4096) % 64), B64((x \div 64) % 64), "=">>
       ELSE LET x == b[i] * 65536
            IN <<B64(x \div 262144), B64((x \div 4096) % 64), "=", "=">>

\* The characters of the model that are not ASCII.
NonAscii == {"\\u00e9"}

\* binascii.a2b_base64 (not strict), from character i on: characters
\* outside the alphabet are skipped, a completed pad ends the data, and
\* what is left of a quad at the end of the input is an error.
RECURSIVE a2b_base64(_, _, _, _, _, _)
a2b_base64(s, i, quad_pos, leftchar, pads, out) ==
    IF i > Len(s)
    THEN IF quad_pos # 0
         THEN [exc |-> "binascii.Error", msg |-> <<"Incorrect padding">>, v |-> <<>>]
         ELSE [exc |-> "none", msg |-> <<>>, v |-> out]
    ELSE IF s[i] = "="
    THEN IF quad_pos >= 2 /\ quad_pos + pads + 1 >= 4
         THEN [exc |-> "none", msg |-> <<>>, v |-> out]
         ELSE a2b_base64(s, i + 1, quad_pos, leftchar,
                         IF quad_pos >= 2 THEN pads + 1 ELSE pads, out)
    ELSE IF s[i] \notin B64Chars
    THEN a2b_base64(s, i + 1, quad_pos, leftchar, pads, out)
    ELSE LET c == B64Index(s[i])
         IN CASE quad_pos = 0 -> a2b_base64(s, i + 1, 1, c, 0, out)
              [] quad_pos = 1 ->
                   a2b_base64(s, i + 1, 2, c % 16, 0,
                              Append(out, leftchar * 4 + c \div 16))
              [] quad_pos = 2 ->
                   a2b_base64(s, i + 1, 3, c % 4, 0,
                              Append(out, leftchar * 16 + c \div 4))
              [] quad_pos = 3 ->
                   a2b_base64(s, i + 1, 0, 0, 0, Append(out, leftchar * 64 + c))

\* base64.b64decode(obj): a str is encoded as ASCII first, bytes are taken
\* as they are, anything else is a TypeError.
b64decode(value) ==
    IF value.t = "str"
    THEN IF \E k \in 1..Len(value.v) : value.v[k] \in NonAscii
         THEN [exc |-> "ValueError",
               msg |-> <<"string argument should contain only ASCII characters">>,
               v |-> <<>>]
         ELSE a2b_base64(value.v, 1, 0, 0, 0, <<>>)
    ELSE [exc |-> "TypeError",
          msg |-> <<"argument should be a bytes-like object or ASCII string, not '",
                    value.t, "'">>,
          v |-> <<>>]

(***************************************************************************)
(* json.dumps                                                              *)
(***************************************************************************)
\* A character inside a JSON string (ensure_ascii)
JsonEscape(c) ==
    CASE c = "\"" -> <<"\\", "\"">>
      [] c = "\\" -> <<"\\", "\\">>
      [] c = "\n" -> <<"\\", "n">>
      [] c = "\t" -> <<"\\", "t">>
      [] c = "\\u00e9" -> <<"\\", "u", "0", "0", "e", "9">>
      [] OTHER -> <<c>>

RECURSIVE JsonEscapeAll(_, _)
JsonEscapeAll(s, i) ==
    IF i > Len(s) THEN <<>> ELSE JsonEscape(s[i]) \o JsonEscapeAll(s, i + 1)

JsonString(s) == <<"\"">> \o JsonEscapeAll(s, 1) \o <<"\"">>

Text(t) == [exc |-> "none", msg |-> <<>>, text |-> t]
NoText(e, m) == [exc |-> e, msg |-> m, text |-> <<>>]

RECURSIVE json_dumps(_)
RECURSIVE json_dumps_items(_, _)
\* the items of a list from item i on, joined by ", "
json_dumps_items(xs, i) ==
    LET joined(r, rest) ==
            IF rest.exc # "none" THEN rest
            ELSE Text(r.text \o <<",", " ">> \o rest.text)
        item(r) ==
            IF r.exc # "none" \/ i = Len(xs) THEN r
            ELSE joined(r, json_dumps_items(xs, i + 1))
    IN item(json_dumps(xs[i]))

json_dumps(value) ==
    CASE value.t = "NoneType" -> Text(<<"n", "u", "l", "l">>)
      [] value.t = "bool" ->
           Text(IF value.v THEN <<"t", "r", "u", "e">> ELSE <<"f", "a", "l", "s", "e">>)
      [] value.t = "int" -> Text(IntToStr(value.v))
      [] value.t = "str" -> Text(JsonString(value.v))
      [] value.t = "list" ->
           IF Len(value.v) = 0 THEN Text(<<"[", "]">>)
           ELSE LET items(r) ==
                        IF r.exc # "none" THEN r
                        ELSE Text(<<"[">> \o r.text \o <<"]">>)
                IN items(json_dumps_items(value.v, 1))
      [] OTHER ->
           NoText("TypeError", <<"Object of type ", value.t, " is not JSON serializable">>)

(***************************************************************************)
(* to_json                                                                 *)
(***************************************************************************)
\* hasattr(value, 'to_json'): the value is an instance of a record type
has_to_json(value) == value.t \in RecordTypes

RECURSIVE Encodium_to_json(_)
RECURSIVE Definition_to_json(_, _)
RECURSIVE to_json_fields(_, _, _)

\* Bytes.Definition.to_json
Bytes_to_json(value) ==
    IF value.t = "bytes"
    THEN json_dumps(PyStr(b64encode(value.v, 1)))
    ELSE NoText("TypeError", <<"a bytes-like object is required, not '", value.t, "'">>)

\* Encodium.Definition.to_json, which List.Definition inherits
Definition_to_json(definition, value) ==
    IF definition.kind = "Bytes" THEN Bytes_to_json(value)
    ELSE IF has_to_json(value) THEN Encodium_to_json(value)
    ELSE json_dumps(value)

\* the loop of Encodium.to_json from field i on
to_json_fields(instance, fields, i) ==
    LET joined(name, r, rest) ==
            IF rest.exc # "none" THEN rest
            ELSE Text((IF i > 1 THEN <<",">> ELSE <<>>)
                      \o <<"\"">> \o name \o <<"\"", ":">>
                      \o r.text \o rest.text)
        field(name, r) ==
            IF r.exc # "none" THEN r
            ELSE joined(name, r, to_json_fields(instance, fields, i + 1))
    IN IF i > Len(fields) THEN Text(<<>>)
       ELSE field(fields[i][1],
                  Definition_to_json(fields[i][2], instance.v[fields[i][1]]))

Encodium_to_json(instance) ==
    LET braces(r) ==
            IF r.exc # "none" THEN r
            ELSE Text(<<"{">> \o r.text \o <<"}">>)
    IN braces(to_json_fields(instance, _encodium_fields(instance.t), 1))

(***************************************************************************)
(* json.loads: a scanner over the characters of the text.  A result is     *)
(* [ok, v, i]: whether a value was read, the value, and the index after    *)
(* it.  The texts of the model hold no \u escape other than that of        *)
(* U+00E9, and no NaN or Infinity.                                         *)
(***************************************************************************)
Whitespace == {" ", "\t", "\n", "\r"}
DigitChars == {Digits[k] : k \in 1..10}
DigitValue(c) == (CHOOSE k \in 1..10 : Digits[k] = c) - 1

Parsed(v, i) == [ok |-> TRUE, v |-> v, i |-> i]
NoParse == [ok |-> FALSE, v |-> None, i |-> 0]

At(text, i) == IF i <= Len(text) THEN text[i] ELSE "<end>"

HasAt(text, i, word) ==
    /\ i + Len(word) - 1 <= Len(text)
    /\ SubSeq(text, i, i + Len(word) - 1) = word

RECURSIVE SkipWhitespace(_, _)
SkipWhitespace(text, i) ==
    IF At(text, i) \in Whitespace THEN SkipWhitespace(text, i + 1) ELSE i

\* the characters of a string from index i on, up to the closing quote
RECURSIVE ScanString(_, _, _)
ScanString(text, i, acc) ==
    LET c == At(text, i)
    IN CASE c = "<end>" -> NoParse
         [] c = "\"" -> Parsed(PyStr(acc), i + 1)
         [] c \in {"\n", "\t", "\r"} -> NoParse
         [] c = "\\" ->
              LET e == At(text, i + 1)
              IN CASE e = "\"" -> ScanString(text, i + 2, Append(acc, "\""))
                   [] e = "\\" -> ScanString(text, i + 2, Append(acc, "\\"))
                   [] e = "/" -> ScanString(text, i + 2, Append(acc, "/"))
                   [] e = "n" -> ScanString(text, i + 2, Append(acc, "\n"))
                   [] e = "t" -> ScanString(text, i + 2, Append(acc, "\t"))
                   [] e = "r" -> ScanString(text, i + 2, Append(acc, "\r"))
                   [] e = "u" /\ HasAt(text, i + 2, <<"0", "0", "e", "9">>) ->
                        ScanString(text, i + 6, Append(acc, "\\u00e9"))
                   [] OTHER -> NoParse
         [] OTHER -> ScanString(text, i + 1, Append(acc, c))

\* the digits from index i on: [n, i]
RECURSIVE ScanDigits(_, _, _)
ScanDigits(text, i, n) ==
    IF At(text, i) \in DigitChars
    THEN ScanDigits(text, i + 1, 10 * n + DigitValue(text[i]))
    ELSE [n |-> n, i |-> i]

\* -?(0|[1-9]\d*)(\.\d+)?([eE][-+]?\d+)?  A number with a fraction or an
\* exponent is a float, kept as its text.
ScanNumber(text, i) ==
    LET number(neg, j, int, exp) ==
            IF At(text, j) \notin DigitChars THEN NoParse
            ELSE IF exp > int.i
            THEN Parsed([t |-> "float", v |-> SubSeq(text, i, exp - 1)], exp)
            ELSE Parsed(PyInt(IF neg THEN -int.n ELSE int.n), int.i)
        exponent(neg, j, int, frac, sign) ==
            number(neg, j, int,
                   IF At(text, frac) \in {"e", "E"} /\ At(text, sign) \in DigitChars
                   THEN ScanDigits(text, sign, 0).i ELSE frac)
        fraction(neg, j, int, frac) ==
            exponent(neg, j, int, frac,
                     IF At(text, frac + 1) \in {"-", "+"} THEN frac + 2 ELSE frac + 1)
        integer(neg, j, int) ==
            fraction(neg, j, int,
                     IF At(text, int.i) = "." /\ At(text, int.i + 1) \in DigitChars
                     THEN ScanDigits(text, int.i + 1, 0).i ELSE int.i)
        signed(neg, j) ==
            integer(neg, j, IF At(text, j) = "0" THEN [n |-> 0, i |-> j + 1]
                            ELSE ScanDigits(text, j, 0))
    IN signed(At(text, i) = "-", IF At(text, i) = "-" THEN i + 1 ELSE i)

RECURSIVE ScanValue(_, _)
RECURSIVE ScanArray(_, _, _)
RECURSIVE ScanObject(_, _, _)

\* the items of an array from index i on (after "[" or ","), up to "]"
ScanArray(text, i, acc) ==
    LET after(r, j) ==
            CASE At(text, j) = "," -> ScanArray(text, j + 1, Append(acc, r.v))
              [] At(text, j) = "]" -> Parsed(PyList(Append(acc, r.v)), j + 1)
              [] OTHER -> NoParse
        item(r) == IF ~r.ok THEN NoParse ELSE after(r, SkipWhitespace(text, r.i))
    IN item(ScanValue(text, SkipWhitespace(text, i)))

\* the pairs of an object from index i on (after "{" or ","), up to "}";
\* a repeated key keeps its last value
ScanObject(text, i, acc) ==
    LET after(j, d) ==
            CASE At(text, j) = "," -> ScanObject(text, j + 1, d)
              [] At(text, j) = "}" -> Parsed(PyDict(d), j + 1)
              [] OTHER -> NoParse
        member(key, r) ==
            IF ~r.ok THEN NoParse
            ELSE after(SkipWhitespace(text, r.i), SetAttr(acc, key.v.v, r.v))
        colon(key, c) ==
            IF At(text, c) # ":" THEN NoParse
            ELSE member(key, ScanValue(text, SkipWhitespace(text, c + 1)))
        name(key) == IF ~key.ok THEN NoParse ELSE colon(key, SkipWhitespace(text, key.i))
        quote(k) == IF At(text, k) # "\"" THEN NoParse ELSE name(ScanString(text, k + 1, <<>>))
    IN quote(SkipWhitespace(text, i))

ScanValue(text, i) ==
    LET object(j) ==
            IF At(text, j) = "}" THEN Parsed(PyDict(EmptyDict), j + 1)
            ELSE ScanObject(text, i + 1, EmptyDict)
        array(j) ==
            IF At(text, j) = "]" THEN Parsed(PyList(<<>>), j + 1)
            ELSE ScanArray(text, i + 1, <<>>)
        value(c) ==
            CASE c = "\"" -> ScanString(text, i + 1, <<>>)
              [] c = "{" -> object(SkipWhitespace(text, i + 1))
              [] c = "[" -> array(SkipWhitespace(text, i + 1))
              [] HasAt(text, i, <<"n", "u", "l", "l">>) -> Parsed(None, i + 4)
              [] HasAt(text, i, <<"t", "r", "u", "e">>) -> Parsed(PyBool(TRUE), i + 4)
              [] HasAt(text, i, <<"f", "a", "l", "s", "e">>) -> Parsed(PyBool(FALSE), i + 5)
              [] c \in DigitChars \cup {"-"} -> ScanNumber(text, i)
              [] OTHER -> NoParse
    IN value(At(text, i))

\* json.loads(text): the value, or a ValueError
json_loads(text) ==
    LET whole(r) ==
            IF r.ok /\ SkipWhitespace(text, r.i) = Len(text) + 1
            THEN [exc |-> "none", v |-> r.v]
            ELSE [exc |-> "ValueError", v |-> None]
    IN whole(ScanValue(text, SkipWhitespace(text, 1)))

(***************************************************************************)
(* from_obj and from_json                                                  *)
(***************************************************************************)
Value(v) == [exc |-> "none", msg |-> <<>>, v |-> v]
NoValue(e, m) == [exc |-> e, msg |-> m, v |-> None]

\* Bytes.Definition.from_obj
Bytes_from_obj(value) ==
    LET decoded(r) ==
            IF r.exc = "none" THEN Value(PyBytes(r.v))
            ELSE IF r.exc = "binascii.Error"
            THEN NoValue("ValidationError", <<"invalid base 64">>)
            ELSE NoValue(r.exc, r.msg)
    IN decoded(b64decode(value))

\* Encodium.Definition.from_obj, a classmethod: for the Definition of a
\* record type, _encodium_type has from_obj, and the test reads
\* obj.__type__, which no value has.  int, str, bool and list have no
\* from_obj: the value is returned as it is.
Definition_from_obj(definition, value) ==
    CASE definition.kind = "Bytes" -> Bytes_from_obj(value)
      [] definition.kind = "Encodium" ->
           NoValue("AttributeError",
                   <<"'", value.t, "' object has no attribute '__type__'">>)
      [] OTHER -> Value(value)

\* the loop of Encodium.from_obj from field i on: the kwargs, or an exception
RECURSIVE from_obj_fields(_, _, _, _)
from_obj_fields(fields, value, i, kwargs) ==
    LET converted(name, r) ==
            IF r.exc # "none"
            THEN [exc |-> r.exc, msg |-> r.msg, kwargs |-> <<>>]
            ELSE from_obj_fields(fields, value, i + 1, Append(kwargs, <<name, r.v>>))
        field(name, definition) ==
            IF name \in DOMAIN value.v
            THEN converted(name, Definition_from_obj(definition, value.v[name]))
            ELSE from_obj_fields(fields, value, i + 1, kwargs)
    IN IF i > Len(fields) THEN [exc |-> "none", msg |-> <<>>, kwargs |-> kwargs]
       ELSE field(fields[i][1], fields[i][2])

Failed(e, m, ctr) ==
    [exc |-> e, msg |-> m, d |-> EmptyDict, hook |-> "not called",
     entered |-> FALSE, given |-> <<>>,
     kwargs |-> <<>>, counter |-> ctr, calls |-> <<>>]

\* Encodium.from_obj
Encodium_from_obj(cls, value, ctr, base_type) ==
    IF value.t # "dict"
    THEN Failed("ValidationError", <<"Cannot create Encodium object from ", value.t>>, ctr)
    ELSE LET construct(k) ==
                 IF k.exc # "none" THEN Failed(k.exc, k.msg, ctr)
                 ELSE Encodium__init__(cls, k.kwargs, ctr, base_type)
         IN construct(from_obj_fields(_encodium_fields(cls), value, 1, <<>>))

\* Encodium.from_json
from_json(cls, text, ctr, base_type) ==
    LET \* except ValueError: obj = None; then `if obj is None`
        loaded(p) ==
            IF p.exc = "ValueError" \/ p.v = None
            THEN Failed("ValidationError", <<"Invalid JSON">>, ctr)
            ELSE Encodium_from_obj(cls, p.v, ctr, base_type)
    IN loaded(json_loads(text))

(***************************************************************************)
(* The values the callers of the model pass                                *)
(***************************************************************************)
MaxListLen == 3
MaxBatch == 2
MaxCounter == 3

Uniform(x, n) == [i \in 1..n |-> x]

\* The instance a successful cls(...) leaves: every field of kwargs is an
\* entry of its __dict__ (kwargs names every field, the defaults included).
New(cls, kwargs) == Instance(cls, Commit(EmptyDict, kwargs))

NewPerson(age, name, diabetic, optional) ==
    New("Person", <<<<k_age, age>>, <<k_name, name>>,
                    <<k_diabetic, diabetic>>, <<k_optional, optional>>>>)

\* Person(name='John', age=25) and Party(people=[john]) of the tests
John == NewPerson(PyInt(25), PyStr(<<"J", "o", "h", "n">>), PyBool(TRUE), None)

JohnsParty == New("Party", <<<<k_people, PyList(<<John>>)>>>>)

RECURSIVE Candidates(_)
\* Values a caller may supply for a field of this Definition: valid ones,
\* ones of the wrong type and ones that break the constraint.
Candidates(definition) ==
    CASE definition.kind = "Integer" ->
           {PyInt(-1), PyInt(1), PyInt(25), PyStr(<<"a">>), None}
      [] definition.kind = "String" ->
           {PyStr(<<"a">>), PyStr(<<"a", "\n", "b", "\"">>),
            PyStr(Uniform("a", NameMaxLength)), PyInt(1)}
      [] definition.kind = "Boolean" -> {PyBool(FALSE), PyInt(1)}
      [] definition.kind = "Bytes" -> {PyBytes(<<1, 2>>), PyBytes(<<>>), PyStr(<<"a">>)}
      [] definition.kind = "Encodium" ->
           {John, JohnsParty, PyInt(1), None}
      [] definition.kind = "List" ->
           {PyList(Uniform(x, n)) :
               x \in Candidates(definition.inner_definition),
               n \in 0..MaxListLen}
           \cup {PyStr(<<"a">>)}

\* The sequences of n of the pairs, no name twice, in every order.
RECURSIVE Arrangements(_, _)
Arrangements(pairs, n) ==
    IF n = 0 THEN {<<>>}
    ELSE LET extend(shorter) ==
                 UNION {{Append(b, p) : p \in {q \in pairs : q[1] \notin Keys(b)}} :
                        b \in shorter}
         IN extend(Arrangements(pairs, n - 1))

\* The keyword batches a caller may pass to cls(...) or change(...): up to
\* MaxBatch declared fields, in any order, or one undeclared name (hat).
Batches(cls) ==
    LET batches(pairs) ==
            {<<<<k_hat, PyStr(<<"F">>)>>>>}
            \cup UNION {Arrangements(pairs, n) : n \in 0..MaxBatch}
        candidates(fields) ==
            batches(UNION {{<<fields[i][1], x>> : x \in Candidates(fields[i][2])} :
                           i \in 1..Len(fields)})
    IN candidates(_encodium_fields(cls))

\* JSON texts a caller may hand to from_json
JsonValues ==
    {<<"n", "u", "l", "l">>, <<"1">>, <<"-", "1">>, <<"t", "r", "u", "e">>,
     <<"1", ".", "5">>, <<"\"", "a", "\"">>, <<"\"", "A", "Q", "I", "=", "\"">>,
     <<"\"", "A", "\"">>, <<"\"", "\\u00e9", "\"">>, <<"[", "]">>, <<"[", "1", "]">>,
     <<"[", "\"", "a", "\"", "]">>, <<"{", "}">>,
     <<"{", "\"", "a", "g", "e", "\"", ":", "1", "}">>}

JsonRoots ==
    {<<>>, <<"n", "u", "l", "l">>, <<"5">>, <<"\"", "s", "\"">>, <<"[", "]">>,
     <<"n", "o", "p", "e">>, <<"{">>, <<"{", "}">>, <<"{", "}", "\n">>}

\* The members "name":text of an object, from member i on, joined by ", "
RECURSIVE JsonMembers(_, _)
JsonMembers(members, i) ==
    IF i > Len(members) THEN <<>>
    ELSE (IF i > 1 THEN <<",", " ">> ELSE <<>>)
         \o <<"\"">> \o members[i][1] \o <<"\"", ":">> \o members[i][2]
         \o JsonMembers(members, i + 1)

\* The texts a caller may hand to cls.from_json: the roots, and the objects
\* of up to MaxBatch members named after declared fields, in any order.
Texts(cls) ==
    LET texts(pairs) ==
            JsonRoots
            \cup {<<"{">> \o JsonMembers(m, 1) \o <<"}">> :
                     m \in UNION {Arrangements(pairs, n) : n \in 1..MaxBatch}}
        members(fields) ==
            texts({<<fields[i][1], v>> : i \in 1..Len(fields), v \in JsonValues})
    IN members(_encodium_fields(cls))

\* Values a caller may compare an instance with
Others ==
    {John, JohnsParty,
     NewPerson(PyInt(25), PyStr(<<"L", "u", "c", "y">>), PyBool(TRUE), None),
     New("Party", <<<<k_people, PyList(<<>>)>>>>),
     New("TestBytes.Nonce", <<<<k_data, PyBytes(<<1, 2>>)>>>>),
     PyInt(5), PyStr(<<"a">>), None}

\* The instances a sender may write to the stream
Senders ==
    {John,
     NewPerson(PyInt(1), PyStr(<<"a", "\n", "b", "\"">>), PyBool(TRUE), None),
     NewPerson(PyInt(1), PyStr(<<>>), PyBool(FALSE), PyInt(-1))}

MaxMessages == 2

\* The keyword arguments a caller may pass to Dad(...) or to a Dad's change:
\* age and name as test_inheritance passes them, or values that Person's
\* Definitions reject, followed by puns or not.
Paul == PyStr(<<"P", "a", "u", "l">>)

DadKwargs ==
    {<<<<k_age, age>>, <<k_name, name>>>> \o puns :
        age \in {PyInt(60), PyInt(-1), PyStr(<<"a">>)},
        name \in {Paul, PyInt(1)},
        puns \in {<<>>, <<<<k_puns, PyList(<<>>)>>>>,
                  <<<<k_puns, PyList(<<PyStr(<<"a">>)>>)>>>>,
                  <<<<k_puns, PyInt(1)>>>>}}

(***************************************************************************)
(* The record engine as a state machine                                    *)
(***************************************************************************)
NoOp ==
    [op |-> "none", cls |-> "", kwargs |-> <<>>, exc |-> "none", msg |-> <<>>,
     pre |-> NoObj, made |-> NoObj, hook |-> "not called", calls |-> <<>>,
     entered |-> FALSE, given |-> <<>>, text |-> <<>>,
     other |-> None, eq |-> FALSE, ne |-> FALSE]

\* A module declares a record type: EncodiumMeta.__init__ runs for it.
Declare(cls) ==
    /\ cls \notin declared
    /\ Needs(cls) \subseteq declared
    /\ obj = NoObj
    /\ last = NoOp
    /\ declared' = declared \cup {cls}
    /\ Definition_encodium_type' = MetaInit_encodium_type(Definition_encodium_type, cls)
    /\ UNCHANGED <<engineVars, streamVars>>

\* What a constructor call (cls with keyword arguments, or one inside from_json) does to
\* the state: r is the outcome of Encodium__init__ or of from_json.
Constructed(op, cls, kwargs, text, r) ==
    LET made == IF r.exc = "none" THEN Instance(cls, r.d) ELSE NoObj
    IN /\ obj' = made
       /\ counter' = r.counter
       /\ returned' = returned \o r.calls
       /\ omits' = IF cls = "Nonce" /\ r.entered /\ k_integer \notin Keys(r.given)
                   THEN omits + 1 ELSE omits
       /\ last' = [NoOp EXCEPT !.op = op, !.cls = cls, !.kwargs = kwargs,
                               !.exc = r.exc, !.msg = r.msg, !.made = made,
                               !.hook = r.hook, !.calls = r.calls,
                               !.entered = r.entered, !.given = r.given,
                               !.text = text]

\* x = cls with keyword arguments
Construct(cls, kwargs) ==
    /\ cls \in declared
    /\ obj = NoObj
    /\ last = NoOp
    /\ counter < MaxCounter
    /\ Constructed("construct", cls, kwargs, <<>>,
                   Encodium__init__(cls, kwargs, counter, Definition_encodium_type))
    /\ UNCHANGED <<metaVars, streamVars>>

\* x = cls.from_json(text)
FromJson(cls, text) ==
    /\ cls \in declared
    /\ obj = NoObj
    /\ last = NoOp
    /\ counter < MaxCounter
    /\ Constructed("from_json", cls, <<>>, text,
                   from_json(cls, text, counter, Definition_encodium_type))
    /\ UNCHANGED <<metaVars, streamVars>>

\* x.change
Change(kwargs) ==
    /\ obj # NoObj
    /\ last = NoOp
    /\ LET changed(r) ==
               /\ obj' = Instance(obj.t, r.d)
               /\ last' = [NoOp EXCEPT !.op = "change", !.cls = obj.t, !.kwargs = kwargs,
                                       !.exc = r.exc, !.msg = r.msg, !.pre = obj,
                                       !.hook = r.hook]
       IN changed(change(obj.t, obj.v, kwargs, Definition_encodium_type))
    /\ UNCHANGED <<metaVars, counter, returned, omits, streamVars>>

\* y = type(x).from_json(x.to_json())
RoundTrip ==
    /\ obj # NoObj
    /\ last = NoOp
    /\ counter < MaxCounter
    /\ LET parsed(t, r) ==
               /\ last' = [NoOp EXCEPT !.op = "round_trip", !.cls = obj.t,
                                       !.exc = r.exc, !.msg = r.msg, !.pre = obj,
                                       !.made = IF r.exc = "none"
                                                THEN Instance(obj.t, r.d) ELSE NoObj,
                                       !.text = t.text, !.entered = r.entered,
                                       !.given = r.given]
               /\ counter' = r.counter
               /\ returned' = returned \o r.calls
               /\ omits' = IF obj.t = "Nonce" /\ r.entered
                              /\ k_integer \notin Keys(r.given)
                           THEN omits + 1 ELSE omits
           written(t) ==
               parsed(t, IF t.exc # "none" THEN Failed(t.exc, t.msg, counter)
                         ELSE from_json(obj.t, t.text, counter, Definition_encodium_type))
       IN written(Encodium_to_json(obj))
    /\ UNCHANGED <<metaVars, obj, streamVars>>

\* x == other and x != other
Compare(other) ==
    /\ obj # NoObj
    /\ last = NoOp
    /\ last' = [NoOp EXCEPT !.op = "compare", !.cls = obj.t, !.pre = obj,
                            !.other = other,
                            !.eq = Encodium__eq__(obj, other),
                            !.ne = Encodium__ne__(obj, other)]
    /\ UNCHANGED <<metaVars, obj, counter, returned, omits, streamVars>>

\* The caller has dealt with the outcome of the last call.
Handled ==
    /\ last # NoOp
    /\ last' = NoOp
    /\ UNCHANGED <<metaVars, obj, counter, returned, omits, streamVars>>

\* del x
Discard ==
    /\ obj # NoObj
    /\ last = NoOp
    /\ obj' = NoObj
    /\ UNCHANGED <<metaVars, last, counter, returned, omits, streamVars>>

(***************************************************************************)
(* recv_from and send_to over a stream (the Mocket of the tests, with the  *)
(* sender's end writing to the text the receiver reads)                    *)
(***************************************************************************)
\* Mocket.recv(buffersize): the slice returned and the counter afterwards
Mocket_recv(buffersize) ==
    LET ret == SubSeq(sock_data, sock_counter + 1,
                      IF sock_counter + buffersize <= Len(sock_data)
                      THEN sock_counter + buffersize ELSE Len(sock_data))
    IN [ret |-> ret, counter |-> sock_counter + Len(ret)]

\* A variant of send_to that writes to_json() without the terminator.
send_to_unterminated(instance) == Encodium_to_json(instance)

\* what send_to hands to sock.send
send_to_payload(instance) ==
    LET line(t) == IF t.exc # "none" THEN t ELSE Text(t.text \o <<"\n">>)
    IN line(Encodium_to_json(instance))

\* x.send_to(sock)
SendTo(instance) ==
    /\ Len(sent) < MaxMessages
    /\ LET send(p) ==
               /\ p.exc = "none"
               /\ sock_data' = sock_data \o p.text
               /\ sent' = Append(sent, instance)
       IN send(send_to_payload(instance))
    /\ UNCHANGED <<metaVars, engineVars, sock_counter, data, pc, received>>

\* Person.recv_from(sock) is entered: data = []
RecvFromBegin ==
    /\ pc = "idle"
    /\ pc' = "recv"
    /\ data' = <<>>
    /\ UNCHANGED <<metaVars, engineVars, sock_data, sock_counter, sent, received>>

\* whether recv_from's loop ends after this unit: data[-1] == '\n'
recv_from_done(unit) == unit = <<"\n">>

RECURSIVE Join(_, _)
\* ''.join(data) from item i on
Join(units, i) == IF i > Len(units) THEN <<>> ELSE units[i] \o Join(units, i + 1)

\* One turn of recv_from's loop: sock.recv(1) blocks until a unit is there.
\* After the newline the text is handed to from_json.
RecvFromStep ==
    /\ pc = "recv"
    /\ sock_counter < Len(sock_data)
    /\ LET handed(u, text, r) ==
               /\ pc' = "idle"
               /\ received' = Append(received,
                      [text |-> text, exc |-> r.exc,
                       made |-> IF r.exc = "none" THEN Instance("Person", r.d)
                                ELSE NoObj,
                       counter |-> u.counter])
           joined(u, text) ==
               handed(u, text, from_json("Person", text, 0, Definition_encodium_type))
           read(u, units) ==
               /\ sock_counter' = u.counter
               /\ data' = units
               /\ IF recv_from_done(u.ret)
                  THEN joined(u, Join(units, 1))
                  ELSE UNCHANGED <<pc, received>>
           unit(u) == read(u, Append(data, u.ret))
       IN unit(Mocket_recv(1))
    /\ UNCHANGED <<metaVars, engineVars, sock_data, sent>>

(***************************************************************************)
(* Specifications                                                          *)
(***************************************************************************)
\* The class attribute once the declarations of `order` have run.
RECURSIVE DeclareAll(_, _, _)
DeclareAll(order, i, current) ==
    IF i > Len(order) THEN current
    ELSE DeclareAll(order, i + 1, MetaInit_encodium_type(current, order[i]))

InitEngine ==
    /\ obj = NoObj
    /\ last = NoOp
    /\ counter = 0
    /\ returned = <<>>
    /\ omits = 0

InitStream ==
    /\ sock_data = <<>>
    /\ sock_counter = 0
    /\ data = <<>>
    /\ pc = "idle"
    /\ sent = <<>>
    /\ received = <<>>

\* The state once src/tests/tests.py (and the other declarations) have run.
Init ==
    /\ declared = RecordTypes
    /\ Definition_encodium_type = DeclareAll(TestsOrder, 1, None)
    /\ InitEngine
    /\ InitStream

\* The record types whose defaults are literals
EngineTypes == RecordTypes \ {"Nonce"}

DoConstruct ==
    /\ obj = NoObj
    /\ last = NoOp
    /\ \E cls \in EngineTypes :
          \E kwargs \in Batches(cls) : Construct(cls, kwargs)

DoFromJson ==
    /\ obj = NoObj
    /\ last = NoOp
    /\ \E cls \in EngineTypes : \E text \in Texts(cls) : FromJson(cls, text)

DoChange ==
    /\ obj # NoObj
    /\ last = NoOp
    /\ \E kwargs \in Batches(obj.t) : Change(kwargs)

DoCompare ==
    /\ obj # NoObj
    /\ last = NoOp
    /\ \E other \in Others \cup {obj} : Compare(other)

Next ==
    \/ DoConstruct
    \/ DoFromJson
    \/ DoChange
    \/ RoundTrip
    \/ DoCompare
    \/ Handled
    \/ Discard

\* The record engine and the JSON bridge, on the declarations of the tests.
Spec == Init /\ [][Next]_vars

\* Declarations in any order Python allows, and the nested record types.
InitMeta ==
    /\ declared = {}
    /\ Definition_encodium_type = None
    /\ InitEngine
    /\ InitStream

NestedTypes == {"Party", "City", "Passport"}

DoDeclare == \E cls \in RecordTypes : Declare(cls)

DoConstructNested ==
    /\ obj = NoObj
    /\ last = NoOp
    /\ Definition_encodium_type # None
    /\ \E cls \in NestedTypes \cap declared :
          \E kwargs \in Batches(cls) : Construct(cls, kwargs)

NextMeta == DoDeclare \/ DoConstructNested \/ Handled \/ Discard

SpecMeta == InitMeta /\ [][NextMeta]_vars

\* Constructions of Nonce, whose default is the callable next_counter.
DoConstructNonce ==
    /\ obj = NoObj
    /\ last = NoOp
    /\ \E kwargs \in Batches("Nonce") : Construct("Nonce", kwargs)

DoFromJsonNonce ==
    /\ obj = NoObj
    /\ last = NoOp
    /\ \E text \in Texts("Nonce") : FromJson("Nonce", text)

NextDefaults ==
    \/ DoConstructNonce
    \/ DoFromJsonNonce
    \/ DoChange
    \/ RoundTrip
    \/ Handled
    \/ Discard

SpecDefaults == Init /\ [][NextDefaults]_vars

\* Messages written to and read from one stream.
DoSendTo == \E instance \in Senders : SendTo(instance)

NextStream == DoSendTo \/ RecvFromBegin \/ RecvFromStep

SpecStream == Init /\ [][NextStream]_vars

\* Dad, the record type declared as a subtype of Person.
DoConstructDad ==
    /\ obj = NoObj
    /\ last = NoOp
    /\ \E kwargs \in DadKwargs : Construct("Dad", kwargs)

DoChangeDad ==
    /\ obj # NoObj
    /\ last = NoOp
    /\ \E kwargs \in DadKwargs \cup Batches("Dad") : Change(kwargs)

NextInherit ==
    \/ DoConstructDad
    \/ DoChangeDad
    \/ RoundTrip
    \/ DoCompare
    \/ Handled
    \/ Discard

SpecInherit == Init /\ [][NextInherit]_vars

(***************************************************************************)
(* The claims                                                              *)
(***************************************************************************)
\* C1: when every per-field check of a change passes and the whole-record
\* check hook raises a validation failure, the caller receives that
\* ValidationError and the instance is exactly as it was before the call.
C1_RollbackOnHookFailure ==
    (last.op = "change" /\ last.hook = "raised") =>
        /\ last.exc = "ValidationError"
        /\ obj = last.pre

\* C2: a change of several fields in which the new value of some declared
\* field fails its Definition's check_type or check_value fails with a
\* ValidationError prefixed with the name of a failing field, the check hook
\* is not called, and the instance is as it was before the call.
C2_AtomicOnFieldFailure ==
    LET failing ==
            {i \in 1..Len(last.kwargs) :
                /\ last.kwargs[i][1] \in FieldNames(last.cls)
                /\ \/ check_type(ClassAttr(last.cls, last.kwargs[i][1]),
                                 last.kwargs[i][2],
                                 Definition_encodium_type).exc = "ValidationError"
                   \/ /\ last.kwargs[i][2] # None
                      /\ check_value(ClassAttr(last.cls, last.kwargs[i][1]),
                                     last.kwargs[i][2]).exc = "ValidationError"}
    IN (last.op = "change" /\ Len(last.kwargs) >= 2 /\ failing # {}) =>
           /\ last.exc = "ValidationError"
           /\ \E i \in failing :
                 /\ Len(last.msg) > Len(last.kwargs[i][1])
                 /\ SubSeq(last.msg, 1, Len(last.kwargs[i][1]) + 1)
                        = last.kwargs[i][1] \o <<" ">>
           /\ last.hook = "not called"
           /\ obj = last.pre

\* C3: after a successful construct or change, every declared field of the
\* instance satisfies its Definition: None only where the field is
\* optional, otherwise a value of the declared kind, not negative for an
\* Integer with non_negative, shorter than max_length for a String with
\* max_length, and every element of a List passing the inner Definition's
\* type check and value check.
C3_ValidityInvariant ==
    (last.op \in {"construct", "change"} /\ last.exc = "none") =>
        \A k \in 1..Len(_encodium_fields(obj.t)) :
            LET definition == _encodium_fields(obj.t)[k][2]
                value == obj.v[_encodium_fields(obj.t)[k][1]]
            IN IF value = None THEN definition.optional
               ELSE /\ issubclass(value.t,
                                  _encodium_type(definition, Definition_encodium_type))
                    /\ (definition.kind = "Integer" /\ definition.non_negative)
                           => Num(value) >= 0
                    /\ (definition.kind = "String" /\ definition.max_length # None)
                           => Len(value.v) < definition.max_length.v
                    /\ definition.kind = "List" =>
                           \A e \in 1..Len(value.v) :
                              /\ check_type(definition.inner_definition, value.v[e],
                                            Definition_encodium_type).exc = "none"
                              /\ check_value(definition.inner_definition,
                                             value.v[e]).exc = "none"

\* C4: for every valid instance x, from_json(to_json(x)) succeeds and
\* returns an instance equal to x.
C4_RoundTrip ==
    (last.op = "round_trip" /\ check(last.pre.t, last.pre.v, {}).exc = "none") =>
        /\ last.exc = "none"
        /\ last.made # NoObj
        /\ last.made.t = last.pre.t
        /\ Encodium__eq__(last.made, last.pre)

\* C5: a == b is true exactly when b is an instance of a's record type and
\* every declared field of a compares equal to that of b; and a != b is
\* the negation of a == b.
C5_EqualityIff ==
    last.op = "compare" =>
        /\ last.eq <=>
              /\ last.other.t = last.pre.t
              /\ \A k \in 1..Len(_encodium_fields(last.pre.t)) :
                    PyEq(last.pre.v[_encodium_fields(last.pre.t)[k][1]],
                         last.other.v[_encodium_fields(last.pre.t)[k][1]])
        /\ last.ne <=> ~last.eq

\* C6: the kind R.Definition() declares is R itself, whatever was declared
\* before R: a field or List element declared with R.Definition() accepts
\* the instances of R and rejects the instances of unrelated record types,
\* so that City(parties=[Party(people=[Person(...)])]) succeeds.
C6_DeclaredKindIsOwnType ==
    (/\ last.op = "construct"
     /\ last.cls \in NestedTypes
     /\ Len(last.kwargs) = 1
     /\ last.kwargs[1][1] \in FieldNames(last.cls)
     /\ last.kwargs[1][2] # None) =>
        LET R == CHOOSE r \in Needs(last.cls) : TRUE
            definition == ClassAttr(last.cls, last.kwargs[1][1])
            value == last.kwargs[1][2]
        IN (last.exc = "none") <=>
              IF definition.kind = "List"
              THEN value.t = "list" /\ \A e \in 1..Len(value.v) : value.v[e].t = R
              ELSE value.t = R

\* C7: from_json returns an instance or fails with ValidationError, never
\* with any other failure.
C7_FromJsonFailsOnlyWithValidationError ==
    last.op = "from_json" => last.exc \in {"none", "ValidationError"}

\* C8: the callable default of Nonce.integer is called exactly once for
\* each construction that omits the field and never for one that supplies
\* it, and the k-th omitting construction commits what the k-th call
\* returned: 0, 1, 2, ...
C8_DefaultLaziness ==
    /\ Len(returned) = omits
    /\ counter = omits
    /\ \A k \in 1..Len(returned) : returned[k] = PyInt(k - 1)
    /\ (last.cls = "Nonce" /\ last.entered) =>
          IF k_integer \in Keys(last.given)
          THEN last.calls = <<>>
          ELSE /\ last.calls = <<returned[omits]>>
               /\ last.exc = "none"
               /\ last.made.v[k_integer] = returned[omits]

\* The third omitting construction of Nonce, after which integer is 2.
C8_Witness ==
    /\ omits = 3
    /\ last.op = "construct"
    /\ last.cls = "Nonce"
    /\ k_integer \notin Keys(last.given)
    /\ last.made # NoObj
    /\ last.made.v[k_integer] = PyInt(2)

\* C9: constructing a record while omitting a field that is not optional
\* and has no default fails with a ValidationError and yields no instance;
\* a construction that succeeds commits, for every omitted field, its
\* configured default (None when there is none).
C9_Optionality ==
    last.op = "construct" =>
        LET omitted ==
                {k \in 1..Len(_encodium_fields(last.cls)) :
                    _encodium_fields(last.cls)[k][1] \notin Keys(last.kwargs)}
        IN /\ (\E k \in omitted :
                  /\ ~_encodium_fields(last.cls)[k][2].optional
                  /\ _encodium_fields(last.cls)[k][2].default = None)
                 => (last.exc = "ValidationError" /\ last.made = NoObj)
           /\ last.exc = "none" =>
                 \A k \in omitted :
                    last.made.v[_encodium_fields(last.cls)[k][1]]
                        = _encodium_fields(last.cls)[k][2].default

\* C10: send_to writes to_json() followed by one newline, and the k-th
\* recv_from reads, one unit at a time, exactly the k-th line of the stream
\* and nothing past its newline, hands that text to from_json and gets the
\* k-th instance sent.
C10_NewlineFraming ==
    LET lines == [k \in 1..Len(sent) |-> Encodium_to_json(sent[k]).text \o <<"\n">>]
        read == Len(Join(SubSeq(lines, 1, Len(received)), 1))
    IN /\ sock_data = Join(lines, 1)
       /\ Len(received) <= Len(sent)
       /\ \A k \in 1..Len(received) :
             /\ received[k].text = lines[k]
             /\ received[k].exc = "none"
             /\ received[k].made = sent[k]
             /\ received[k].counter = Len(Join(SubSeq(lines, 1, k), 1))
       /\ sock_counter = read + (IF pc = "recv" THEN Len(Join(data, 1)) ELSE 0)
       /\ pc = "recv" =>
             /\ \A u \in 1..Len(data) : Len(data[u]) = 1 /\ data[u] # <<"\n">>
             /\ Len(received) < Len(sent) =>
                   Join(data, 1) = SubSeq(lines[Len(received) + 1], 1, Len(Join(data, 1)))

\* The first of two messages has been read, its name holding a newline,
\* and the second message is still unread on the stream.
C10_Witness ==
    /\ Len(sent) = 2
    /\ Len(received) = 1
    /\ pc = "idle"
    /\ sock_counter < Len(sock_data)
    /\ received[1].made = sent[1]
    /\ \E c \in 1..Len(sent[1].v[k_name].v) : sent[1].v[k_name].v[c] = "\n"

\* C11: a record type declared as a subtype of a record type that declares
\* fields has the parent's declared fields in its field mapping beside its
\* own, so a construction of Dad that supplies values for Person's fields
\* fails with a ValidationError when one of them breaks Person's Definition
\* (age=-1) and otherwise leaves them on the instance (age 60, name 'Paul').
C11_InheritedFieldsValidatedAndCommitted ==
    (last.op = "construct" /\ last.cls = "Dad") =>
        /\ FieldNames("Person") \cup {k_puns} \subseteq FieldNames("Dad")
        /\ LET inherited == {i \in 1..Len(last.kwargs) :
                                last.kwargs[i][1] \in FieldNames("Person")}
               rejected(i) ==
                   CheckFields("Person", <<last.kwargs[i]>>, 1, <<>>,
                               Definition_encodium_type).exc # "none"
           IN IF \E i \in inherited : rejected(i)
              THEN last.exc = "ValidationError"
              ELSE last.exc = "none" =>
                      \A i \in inherited :
                         getattr(last.made, last.kwargs[i][1]) = last.kwargs[i][2]

\* Dad(age=-1, name='Paul', puns=[]) has returned an instance: its __dict__
\* holds puns alone, and its age reads as the class attribute of Person
\* (so hasattr(dad, 'age') holds, as test_inheritance asserts).
C11_InheritedFieldsIgnored ==
    /\ last.op = "construct"
    /\ last.cls = "Dad"
    /\ last.kwargs = <<<<k_age, PyInt(-1)>>, <<k_name, Paul>>, <<k_puns, PyList(<<>>)>>>>
    /\ last.exc = "none"
    /\ last.made = New("Dad", <<<<k_puns, PyList(<<>>)>>>>)
    /\ hasattr(last.made, k_age)
    /\ getattr(last.made, k_age) = [t |-> "Definition", v |-> ClassAttr("Person", k_age)]

====
